---- MODULE Spec2Model ----
(***************************************************************************)
(* Model of the SAGE persistent-condition trigger infrastructure           *)
(* (sage/utils/trigger_server.py) and of the simulated device backend      *)
(* (sage/testing/fake_requests.py).                                        *)
(*                                                                         *)
(* The trigger server is a single-threaded asyncio process: every request  *)
(* handler and every tick of poll_triggers runs atomically.  The poller is *)
(* a separate spawned process holding its own pickled copies of the        *)
(* condition list and of the code registry; it talks to the server through *)
(* one multiprocessing Pipe.                                               *)
(***************************************************************************)
EXTENDS Integers, Sequences, FiniteSets, TLC

\* ------------------------------------------------------------------------
\* Bounds of the model
\* ------------------------------------------------------------------------
\* Most conditions the server is asked to hold.
MaxConds == 2
\* Most messages in the pipe and in the buffer together.
MaxPending == 2

\* ------------------------------------------------------------------------
\* Value universes
\* ------------------------------------------------------------------------
Fns == {"f1", "f2"}

\* What a routine can return. JSON true and false are the two results.
Results == {"True", "False"}

\* What running a routine can do: return a result, or raise.
Outcomes == Results \cup {"raise"}

\* A condition record as posted by NotifyOnConditionTool.
CondRec(fn, when, action, user) ==
  [function_name |-> fn, notify_when |-> when,
   action_description |-> action, user_name |-> user]

\* The records requests are drawn from: one per routine, with distinct
\* actions and with both polarities.
CondRecs ==
  {CondRec("f1", "True", "a1", "u1"), CondRec("f2", "False", "a2", "u1")}

\* A code-registry entry. code_define and code_run are identified with the
\* routine name they define; last_result is the only field that changes.
CodeEntries == [last_result : Results]

EmptyCodes == [f \in {} |-> [last_result |-> "False"]]

\* The "code" part of an add_condition body: absent, or one entry keyed by
\* the condition's own routine name.
CodeMaps(cond) ==
  {EmptyCodes} \cup
  {[f \in {cond.function_name} |-> e] : e \in CodeEntries}

\* Bodies posted to /trigger_manually.
ManualPayloads == {[user |-> "tester", command |-> "m1"]}

VARIABLES
  conditions,   \* server: self.conditions
  codes,        \* server: self.codes
  triggers,     \* server: self.triggers
  resp,         \* the last /check_triggers response
  chan,         \* messages sent on the current pipe and not yet received
  palive,       \* state of the process in self.process
  pconds,       \* poller process: its copy of condition_registry
  pcodes,       \* poller process: its copy of code_registry
  pidx,         \* poller process: conditions already evaluated in this cycle
  routine,      \* environment: what run_code does for each routine now
  test_id,      \* device backend: the global test_id[0] of fake_requests
  store,        \* device backend: the device_state collection, by test id
  dreq,         \* device backend: the last request made
  dresp,        \* device backend: what that request returned
  inflight      \* device backend: the local device_state of each process
                \* that is inside request()

triggerVars ==
  <<conditions, codes, triggers, resp, chan, palive, pconds, pcodes, pidx,
    routine>>

deviceVars == <<test_id, store, dreq, dresp, inflight>>

vars == <<triggerVars, deviceVars>>

serverVars == <<conditions, codes, triggers, resp>>
pollerVars == <<palive, pconds, pcodes, pidx>>

\* ------------------------------------------------------------------------
\* Helpers
\* ------------------------------------------------------------------------
\* dict.update
DictUpdate(old, new) ==
  [f \in (DOMAIN old) \cup (DOMAIN new) |->
     IF f \in DOMAIN new THEN new[f] ELSE old[f]]

\* The message condition_poller sends for a fired condition.
PollerMessage(cond, registry) ==
  [command |-> cond.action_description, user |-> cond.user_name,
   conditions |-> registry]

\* What the server keeps of a received message.
TriggerOut(trigger) == [user |-> trigger.user, command |-> trigger.command]

\* The responses of /check_triggers: none sent yet, json.dumps([]), or
\* json.dumps of the message taken from the buffer.
NoResponse == [status |-> "none"]
EmptyResult == [status |-> "empty"]
Returned(message) == [status |-> "message", body |-> message]

\* The processes that call request(): the agent and the code a poller runs.
Procs == {"p1", "p2"}

\* A process that is not inside request().
Idle == [busy |-> FALSE]

\* ------------------------------------------------------------------------
\* Initial state: main() has started the first poller with empty registries
\* ------------------------------------------------------------------------
Init ==
  /\ conditions = <<>>
  /\ codes = EmptyCodes
  /\ triggers = <<>>
  /\ resp = NoResponse
  /\ chan = <<>>
  /\ palive = "running"
  /\ pconds = <<>>
  /\ pcodes = EmptyCodes
  /\ pidx = 0
  /\ routine \in [Fns -> Results]
  /\ test_id = "-1"
  /\ store = <<>>
  /\ dreq = [method |-> "none"]
  /\ dresp = [raised |-> FALSE, status_code |-> 0, json |-> "none"]
  /\ inflight = [p \in Procs |-> Idle]

\* ------------------------------------------------------------------------
\* Server handlers
\* ------------------------------------------------------------------------
\* A check_triggers that returns the oldest message and leaves it buffered.
CheckTriggersPeeking ==
  /\ IF triggers # <<>>
       THEN resp' = Returned(Head(triggers))
       ELSE resp' = EmptyResult
  /\ UNCHANGED <<triggers, conditions, codes, chan, pollerVars, routine,
                 deviceVars>>

\* A check_triggers that restarts the poller, as add_condition does.
CheckTriggersRestarting ==
  /\ IF triggers # <<>>
       THEN /\ resp' = Returned(Head(triggers))
            /\ triggers' = Tail(triggers)
       ELSE /\ resp' = EmptyResult
            /\ UNCHANGED triggers
  /\ chan' = <<>>
  /\ palive' = "running"
  /\ pconds' = conditions
  /\ pcodes' = codes
  /\ pidx' = 0
  /\ UNCHANGED <<conditions, codes, routine, deviceVars>>

\* GET /check_triggers
CheckTriggers ==
  /\ IF triggers # <<>>
       THEN /\ resp' = Returned(Head(triggers))
            /\ triggers' = Tail(triggers)
       ELSE /\ resp' = EmptyResult
            /\ UNCHANGED triggers
  /\ UNCHANGED <<conditions, codes, chan, pollerVars, routine, deviceVars>>

\* A trigger_manually that restarts the poller, as add_condition does.
ManualTriggerRestarting(reqjson) ==
  /\ Len(chan) + Len(triggers) < MaxPending
  /\ triggers' = Append(triggers, reqjson)
  /\ chan' = <<>>
  /\ palive' = "running"
  /\ pconds' = conditions
  /\ pcodes' = codes
  /\ pidx' = 0
  /\ UNCHANGED <<conditions, codes, resp, routine, deviceVars>>

\* A trigger_manually that puts the message at the front of the buffer.
ManualTriggerAtFront(reqjson) ==
  /\ Len(chan) + Len(triggers) < MaxPending
  /\ triggers' = <<reqjson>> \o triggers
  /\ UNCHANGED <<conditions, codes, resp, chan, pollerVars, routine, deviceVars>>

\* POST /trigger_manually
ManualTrigger(reqjson) ==
  /\ Len(chan) + Len(triggers) < MaxPending
  /\ triggers' = Append(triggers, reqjson)
  /\ UNCHANGED <<conditions, codes, resp, chan, pollerVars, routine, deviceVars>>

\* A run_process that lets the old process finish its cycle before it
\* starts the new one.
RunProcessAfterCycle(args) ==
  /\ palive # "stuck"
  /\ chan' = <<>>
  /\ palive' = "running"
  /\ pconds' = args[1]
  /\ pcodes' = args[2]
  /\ pidx' = 0

\* A run_process that starts the new process with the registries of the old.
RunProcessKeepingRegistry(args) ==
  /\ chan' = <<>>
  /\ palive' = "running"
  /\ pidx' = 0
  /\ UNCHANGED <<pconds, pcodes>>

\* run_process: the old process is terminated and killed, a new pipe replaces
\* the old one, and a new process is spawned with the pickled poller_args.
RunProcess(args) ==
  /\ chan' = <<>>
  /\ palive' = "running"
  /\ pconds' = args[1]
  /\ pcodes' = args[2]
  /\ pidx' = 0

\* POST /add_condition with body {"code": code, "condition": cond}
AddCondition(cond, code) ==
  /\ Len(conditions) < MaxConds
  /\ codes' = DictUpdate(codes, code)
  /\ conditions' = Append(conditions, cond)
  /\ RunProcess(<<conditions', codes'>>)
  /\ UNCHANGED <<triggers, resp, routine, deviceVars>>

\* GET /reset
Reset ==
  /\ conditions' = <<>>
  /\ codes' = EmptyCodes
  /\ triggers' = <<>>
  /\ UNCHANGED <<resp, chan, pollerVars, routine, deviceVars>>

\* A poll_triggers tick that reads the message and does not buffer it.
PollTickDropping ==
  /\ chan # <<>>
  /\ conditions' = Head(chan).conditions
  /\ chan' = Tail(chan)
  /\ UNCHANGED <<triggers, codes, resp, pollerVars, routine, deviceVars>>

\* One tick of ConditionTriggerServer.poll_triggers with a message waiting.
PollTick ==
  /\ chan # <<>>
  /\ LET trigger == Head(chan) IN
       /\ triggers' = Append(triggers, TriggerOut(trigger))
       /\ conditions' = trigger.conditions
  /\ chan' = Tail(chan)
  /\ UNCHANGED <<codes, resp, pollerVars, routine, deviceVars>>

\* ------------------------------------------------------------------------
\* The poller process
\* ------------------------------------------------------------------------
\* The condition the loop of check_conditions is at, and its routine.
CurCond == pconds[pidx + 1]
CurFn == CurCond.function_name

\* run_code(code["code_define"], code["code_run"])
RunCode(fn) == routine[fn]

\* The process dies on an uncaught exception: a condition whose routine name
\* is not a key of the code registry, or a routine that raises. Its copies
\* of the registries die with it.
PollerRaises == CurFn \notin DOMAIN pcodes \/ RunCode(CurFn) = "raise"

\* run_code has no timeout: a routine that does not return keeps the process
\* inside check_conditions.
PollerHangs == CurFn \in DOMAIN pcodes /\ RunCode(CurFn) = "hang"

\* Where the loop goes after a condition that did not fire: to the next
\* condition, or, after the last one, to the next cycle.
NextIdx == IF pidx + 1 = Len(pconds) THEN 0 ELSE pidx + 1

\* A check_conditions that fires on every change of the result, whatever
\* the condition's notify_when.
PollerEvalAnyChange ==
  /\ palive = "running"
  /\ Len(pconds) > 0
  /\ IF CurFn \notin DOMAIN pcodes \/ routine[CurFn] = "raise"
       THEN /\ palive' = "crashed"
            /\ pconds' = <<>>
            /\ pcodes' = EmptyCodes
            /\ pidx' = 0
            /\ UNCHANGED chan
       ELSE LET status == routine[CurFn] IN
            /\ UNCHANGED <<palive, pconds>>
            /\ IF pcodes[CurFn].last_result # status
                 THEN /\ pcodes' = [pcodes EXCEPT ![CurFn].last_result = status]
                      /\ Len(chan) + Len(triggers) < MaxPending
                      /\ chan' = Append(chan, PollerMessage(CurCond, pconds))
                      /\ pidx' = 0
                 ELSE /\ pidx' = IF pidx + 1 = Len(pconds) THEN 0 ELSE pidx + 1
                      /\ UNCHANGED <<pcodes, chan>>
  /\ UNCHANGED <<serverVars, routine, deviceVars>>

\* A check_conditions that fires whenever the result equals notify_when,
\* whether or not it changed.
PollerEvalLevelTriggered ==
  /\ palive = "running"
  /\ Len(pconds) > 0
  /\ IF CurFn \notin DOMAIN pcodes \/ routine[CurFn] = "raise"
       THEN /\ palive' = "crashed"
            /\ pconds' = <<>>
            /\ pcodes' = EmptyCodes
            /\ pidx' = 0
            /\ UNCHANGED chan
       ELSE LET status == routine[CurFn] IN
            /\ UNCHANGED <<palive, pconds>>
            /\ pcodes' = [pcodes EXCEPT ![CurFn].last_result = status]
            /\ IF status = CurCond.notify_when
                 THEN /\ Len(chan) + Len(triggers) < MaxPending
                      /\ chan' = Append(chan, PollerMessage(CurCond, pconds))
                      /\ pidx' = 0
                 ELSE /\ pidx' = IF pidx + 1 = Len(pconds) THEN 0 ELSE pidx + 1
                      /\ UNCHANGED chan
  /\ UNCHANGED <<serverVars, routine, deviceVars>>

\* One iteration of the loop of check_conditions, and, when it returns, the
\* rest of the cycle of condition_poller.
PollerEval ==
  /\ palive = "running"
  /\ Len(pconds) > 0
  /\ ~PollerHangs
  /\ IF PollerRaises
       THEN /\ palive' = "crashed"
            /\ pconds' = <<>>
            /\ pcodes' = EmptyCodes
            /\ pidx' = 0
            /\ UNCHANGED chan
       ELSE LET status == RunCode(CurFn) IN
            /\ UNCHANGED <<palive, pconds>>
            /\ IF pcodes[CurFn].last_result # status
                 THEN /\ pcodes' = [pcodes EXCEPT ![CurFn].last_result = status]
                      /\ IF status = CurCond.notify_when
                           THEN /\ Len(chan) + Len(triggers) < MaxPending
                                /\ chan' = Append(chan, PollerMessage(CurCond, pconds))
                                /\ pidx' = 0
                           ELSE /\ pidx' = NextIdx
                                /\ UNCHANGED chan
                 ELSE /\ pidx' = NextIdx
                      /\ UNCHANGED <<pcodes, chan>>
  /\ UNCHANGED <<serverVars, routine, deviceVars>>

\* ------------------------------------------------------------------------
\* Environment: the device state a routine reads changes
\* ------------------------------------------------------------------------
EnvChange(f, outcome) ==
  /\ routine[f] # outcome
  /\ routine' = [routine EXCEPT ![f] = outcome]
  /\ UNCHANGED <<serverVars, chan, pollerVars, deviceVars>>

Next ==
  \/ CheckTriggers
  \/ \E reqjson \in ManualPayloads : ManualTrigger(reqjson)
  \/ \E cond \in CondRecs : \E code \in CodeMaps(cond) : AddCondition(cond, code)
  \/ Reset
  \/ PollTick
  \/ PollerEval
  \/ \E f \in Fns : \E outcome \in Outcomes : EnvChange(f, outcome)

Spec == Init /\ [][Next]_vars

\* The loop of condition_poller and the loop of poll_triggers never stop
\* taking their turn: a running poller goes on evaluating, and the server
\* goes on reading the pipe.
Fairness == WF_vars(PollerEval) /\ WF_vars(PollTick)

LiveSpec == Init /\ [][Next]_vars /\ Fairness

\* ------------------------------------------------------------------------
\* The simulated device backend (fake_requests.request)
\* ------------------------------------------------------------------------
\* Most command entries in one POST body.
MaxCmds == 2

Sessions == {"s1", "s2"}

\* Arguments of a command, tagged with their Python type.
IntArg(n) == [int |-> n]
StrArg(text) == [str |-> text]
ColorArg(h, sat) == [hue |-> h, saturation |-> sat]

IsInt(arg) == DOMAIN arg = {"int"}
IsDict(arg) == ~IsInt(arg) /\ DOMAIN arg # {"str"}

\* The value an argument stores in the tree.
ArgValue(arg) ==
  IF IsInt(arg) THEN arg.int ELSE IF DOMAIN arg = {"str"} THEN arg.str ELSE arg

Attr(v) == [value |-> v]

\* The device tree the test harness writes: device -> component ->
\* capability -> attribute -> value.
BaseTree ==
  [light |->
     [main |->
        [switch |-> [switch |-> Attr("off")],
         switchLevel |-> [level |-> Attr(0)],
         colorControl |-> [hue |-> Attr(0), saturation |-> Attr(0)]]],
   tv |->
     [main |->
        [switch |-> [switch |-> Attr("off")],
         audioVolume |-> [volume |-> Attr(10)]]]]

InitialTrees == {BaseTree}

Command(component, capability, command, arguments) ==
  [component |-> component, capability |-> capability,
   command |-> command, arguments |-> arguments]

\* The command entries POST bodies are made of: accepted ones, ones with a
\* bad argument, and one for a capability the backend does not know.
CommandEntries ==
  {Command("main", "switch", "on", <<>>),
   Command("main", "switchLevel", "setLevel", <<IntArg(50)>>),
   Command("main", "switchLevel", "setLevel", <<StrArg("red")>>),
   Command("main", "colorControl", "setHue", <<IntArg(120)>>),
   Command("main", "lock", "lock", <<>>)}

CommandLists ==
  UNION {[1..n -> CommandEntries] : n \in 1..MaxCmds}

\* Device ids a request URL names: a device of the tree and an unknown one.
DeviceIds == {"light", "nodevice"}

\* What one pass through the loop body leaves: the local tree, the
\* update_state flag, and whether the loop goes on, an exception was raised,
\* or the not-supported response was returned.
Continue(device_state, update_state) ==
  [outcome |-> "continue", device_state |-> device_state,
   update_state |-> update_state]

Raise(device_state, update_state) ==
  [outcome |-> "raised", device_state |-> device_state,
   update_state |-> update_state]

NotSupported(device_state, update_state) ==
  [outcome |-> "unsupported", device_state |-> device_state,
   update_state |-> update_state]

\* An assignment that never writes the saturation attribute.
AssignHueOnly(device_state, device_id, component, capability, attribute, v) ==
  IF /\ capability \in DOMAIN device_state[device_id][component]
     /\ attribute \in DOMAIN device_state[device_id][component][capability]
    THEN Continue(
           IF attribute = "saturation" THEN device_state
           ELSE [device_state EXCEPT
                   ![device_id][component][capability][attribute].value = v],
           TRUE)
    ELSE Raise(device_state, FALSE)

\* An assignment that never writes the measured temperature.
AssignSkippingTemperature(device_state, device_id, component, capability, attribute, v) ==
  IF /\ capability \in DOMAIN device_state[device_id][component]
     /\ attribute \in DOMAIN device_state[device_id][component][capability]
    THEN Continue(
           IF attribute = "temperature" THEN device_state
           ELSE [device_state EXCEPT
                   ![device_id][component][capability][attribute].value = v],
           TRUE)
    ELSE Raise(device_state, FALSE)

\* device_state[device_id][component][capability][attribute]["value"] = v,
\* a KeyError when the capability or the attribute is not there.
Assign(device_state, device_id, component, capability, attribute, v) ==
  IF /\ capability \in DOMAIN device_state[device_id][component]
     /\ attribute \in DOMAIN device_state[device_id][component][capability]
    THEN Continue(
           [device_state EXCEPT
              ![device_id][component][capability][attribute].value = v],
           TRUE)
    ELSE Raise(device_state, FALSE)

\* A volume step that stops at the ends of the range 0..100.
AdjustClamped(volume, command) ==
  IF command = "volumeUp"
    THEN (IF volume + 5 > 100 THEN 100 ELSE volume + 5)
    ELSE (IF volume - 5 < 0 THEN 0 ELSE volume - 5)

\* ["volume"]["value"] += 5 for volumeUp, -= 5 for volumeDown
Adjust(volume, command) ==
  volume + (IF command = "volumeUp" THEN 5 ELSE -5)

\* The body of the loop over kwargs["json"]["commands"] for one entry.
ApplyCommand(device_state, device_id, com, update_state) ==
  LET component == com.component
      capability == com.capability
      command == com.command
      args == com.arguments
      Set(cap, attribute, v) ==
        Assign(device_state, device_id, component, cap, attribute, v)
      Fail == Raise(device_state, update_state)
      Skip(flag) == Continue(device_state, flag)
  IN
  IF device_id \notin DOMAIN device_state THEN Fail
  ELSE IF component \notin DOMAIN device_state[device_id] THEN Fail
  ELSE CASE capability = "switch" ->
         IF command \in {"on", "off"}
           THEN Set(capability, "switch", command)
           ELSE Fail
    [] capability = "switchLevel" ->
         IF command = "setLevel"
           THEN IF Len(args) > 0 /\ IsInt(args[1])
                  THEN Set(capability, "level", args[1].int)
                  ELSE Fail
           ELSE Skip(TRUE)
    [] capability = "colorTemperature" ->
         IF command = "setColorTemperature"
           THEN IF Len(args) > 0
                  THEN Set(capability, "colorTemperature", ArgValue(args[1]))
                  ELSE Fail
           ELSE Skip(TRUE)
    [] capability = "colorControl" ->
         IF command = "setHue"
           THEN IF Len(args) > 0 /\ IsInt(args[1]) /\ args[1].int <= 100
                  THEN Set(capability, "hue", args[1].int)
                  ELSE Fail
         ELSE IF command = "setSaturation"
           THEN IF Len(args) > 0
                  THEN Set(capability, "saturation", ArgValue(args[1]))
                  ELSE Fail
         ELSE IF command = "setColor"
           THEN IF /\ Len(args) > 0
                   /\ IsDict(args[1])
                   /\ "hue" \in DOMAIN args[1]
                   /\ args[1].hue <= 100
                   /\ "saturation" \in DOMAIN args[1]
                  THEN LET withHue == Set(capability, "hue", args[1].hue) IN
                       IF withHue.outcome = "raised" THEN withHue
                       ELSE Assign(withHue.device_state, device_id, component,
                                   capability, "saturation", args[1].saturation)
                  ELSE Fail
         ELSE Skip(update_state)
    [] capability = "tvChannel" ->
         IF command = "setTvChannel" /\ Len(args) > 0
           THEN Set(capability, "tvChannel", ArgValue(args[1]))
           ELSE Fail
    [] capability = "audioVolume" ->
         IF command = "setVolume"
           THEN IF Len(args) > 0
                  THEN Set(capability, "volume", ArgValue(args[1]))
                  ELSE Fail
         ELSE IF command \in {"volumeDown", "volumeUp"}
           THEN IF /\ capability \in DOMAIN device_state[device_id][component]
                   /\ "volume" \in
                        DOMAIN device_state[device_id][component][capability]
                  THEN Set(capability, "volume",
                           Adjust(device_state[device_id][component][capability]
                                    .volume.value,
                                  command))
                  ELSE Fail
         ELSE Fail
    [] capability = "refresh" -> Skip(update_state)
    [] capability = "samsungce.dishwasherWashingCourse" ->
         IF command = "setWashingCourse"
           THEN IF Len(args) > 0
                  THEN Set(capability, "washingCourse", ArgValue(args[1]))
                  ELSE Fail
           ELSE Skip(update_state)
    [] capability = "execute" ->
         IF command = "start"
           THEN Set("dishwasherOperatingState", "machineState", "run")
           ELSE Fail
    [] capability = "custom.thermostatSetpointControl" ->
         IF command = "setSetpoint" /\ Len(args) > 0
           THEN Set("temperatureMeasurement", "temperature", ArgValue(args[1]))
           ELSE Fail
    [] capability = "dishwasherOperatingState" ->
         IF command = "setMachineState" /\ Len(args) > 0
           THEN Set(capability, "machineState", ArgValue(args[1]))
           ELSE Fail
    [] capability = "thermostatCoolingSetpoint" ->
         IF component = "main" THEN Fail
         ELSE IF command = "setCoolingSetpoint"
           THEN IF Len(args) > 0
                  THEN LET withSetpoint ==
                             Set(capability, "coolingSetpoint", ArgValue(args[1]))
                       IN
                       IF withSetpoint.outcome = "raised" THEN withSetpoint
                       ELSE Assign(withSetpoint.device_state, device_id,
                                   component, "temperatureMeasurement",
                                   "temperature", ArgValue(args[1]))
                  ELSE Fail
         ELSE Skip(update_state)
    [] OTHER -> NotSupported(device_state, update_state)

\* A command that assigns keeps the flag of the commands before it set.
KeepFlag(step, update_state) ==
  [step EXCEPT !.update_state = step.update_state \/ update_state]

\* The loop over the command entries: it stops at the first entry that
\* raises or is not supported.
RECURSIVE RunCommands(_, _, _, _)
RunCommands(device_state, device_id, commands, update_state) ==
  IF commands = <<>>
    THEN Continue(device_state, update_state)
    ELSE LET step ==
               KeepFlag(ApplyCommand(device_state, device_id, Head(commands),
                                     update_state),
                        update_state)
         IN
         IF step.outcome # "continue" THEN step
         ELSE RunCommands(step.device_state, device_id, Tail(commands),
                          step.update_state)

\* Responses: a FakeResponse, or an exception that leaves request().
FakeResponse(json_content, status_code) ==
  [raised |-> FALSE, status_code |-> status_code, json |-> json_content]

Raises == [raised |-> TRUE]

\* A set_device_state whose filter matches every document.
DbSetAll(db, sid, device_state) ==
  [k \in (DOMAIN db) \cup {sid} |-> device_state]

\* TestLogsDb.set_device_state: replace or insert the tree of one test id.
DbSet(db, sid, device_state) ==
  [k \in (DOMAIN db) \cup {sid} |-> IF k = sid THEN device_state ELSE db[k]]

\* set_test_id
SetTestId(new_test_id) ==
  /\ test_id # new_test_id
  /\ test_id' = new_test_id
  /\ UNCHANGED <<store, dreq, dresp, triggerVars, inflight>>

\* db.set_device_state called by the test harness
SetDeviceState(sid, device_state) ==
  /\ store' = DbSet(store, sid, device_state)
  /\ UNCHANGED <<test_id, dreq, dresp, triggerVars, inflight>>

\* TestLogsDb.get_device_state of a test id that has a document.
GetDeviceState(db, sid) == db[sid]

\* A request() that never saves the tree.
PostWithoutSaving(device_id, commands) ==
  /\ dreq' = [method |-> "post", device_id |-> device_id, commands |-> commands]
  /\ IF test_id = "-1" \/ test_id \notin DOMAIN store
       THEN dresp' = Raises
       ELSE LET run == RunCommands(store[test_id], device_id, commands, FALSE) IN
            dresp' = IF run.outcome = "raised"
                       THEN FakeResponse("An error occurred", 500)
                     ELSE IF run.outcome = "unsupported"
                       THEN FakeResponse("capability not supported yet", 500)
                     ELSE FakeResponse("successfully executed command", 200)
  /\ UNCHANGED <<store, test_id, triggerVars, inflight>>

\* A request() that saves the tree as soon as a command has changed it.
PostSavingEachCommand(device_id, commands) ==
  /\ dreq' = [method |-> "post", device_id |-> device_id, commands |-> commands]
  /\ IF test_id = "-1" \/ test_id \notin DOMAIN store
       THEN /\ dresp' = Raises
            /\ UNCHANGED store
       ELSE LET run == RunCommands(store[test_id], device_id, commands, FALSE) IN
            /\ dresp' = IF run.outcome = "raised"
                          THEN FakeResponse("An error occurred", 500)
                        ELSE IF run.outcome = "unsupported"
                          THEN FakeResponse("capability not supported yet", 500)
                        ELSE FakeResponse("successfully executed command", 200)
            /\ store' = IF run.update_state
                          THEN DbSet(store, test_id, run.device_state)
                          ELSE store
  /\ UNCHANGED <<test_id, triggerVars, inflight>>

\* request("post", ".../devices/{device_id}/commands", json={"commands": ...})
Post(device_id, commands) ==
  /\ dreq' = [method |-> "post", device_id |-> device_id, commands |-> commands]
  /\ IF test_id = "-1" \/ test_id \notin DOMAIN store
       THEN /\ dresp' = Raises
            /\ UNCHANGED store
       ELSE LET run == RunCommands(GetDeviceState(store, test_id), device_id,
                                   commands, FALSE)
            IN
            IF run.outcome = "raised"
              THEN /\ dresp' = FakeResponse("An error occurred", 500)
                   /\ UNCHANGED store
            ELSE IF run.outcome = "unsupported"
              THEN /\ dresp' = FakeResponse("capability not supported yet", 500)
                   /\ UNCHANGED store
            ELSE /\ dresp' = FakeResponse("successfully executed command", 200)
                 /\ store' = IF run.update_state
                               THEN DbSet(store, test_id, run.device_state)
                               ELSE store
  /\ UNCHANGED <<test_id, triggerVars, inflight>>

\* request("get", ".../devices/{device_id}"): the whole-device form.
GetDevice(device_id) ==
  /\ dreq' = [method |-> "get", form |-> "device", device_id |-> device_id]
  /\ IF test_id = "-1" \/ test_id \notin DOMAIN store
       THEN dresp' = Raises
       ELSE LET device_state == GetDeviceState(store, test_id) IN
            IF device_id \notin DOMAIN device_state
              THEN dresp' = Raises
              ELSE dresp' = FakeResponse([components |-> device_state[device_id]],
                                         200)
  /\ UNCHANGED <<store, test_id, triggerVars, inflight>>

\* request("get", ".../devices/{device_id}/components/{component}/
\* capabilities/{capability}/status"): the status form.
GetStatus(device_id, component, capability) ==
  /\ dreq' = [method |-> "get", form |-> "status", device_id |-> device_id,
              component |-> component, capability |-> capability]
  /\ IF test_id = "-1" \/ test_id \notin DOMAIN store
       THEN dresp' = Raises
       ELSE LET device_state == GetDeviceState(store, test_id) IN
            IF device_id \notin DOMAIN device_state
              THEN dresp' = FakeResponse(<<"no such device">>, 200)
            ELSE IF component \notin DOMAIN device_state[device_id]
              THEN dresp' = FakeResponse(<<"no such component">>, 200)
            ELSE IF capability \notin DOMAIN device_state[device_id][component]
              THEN dresp' = FakeResponse(<<"no such capability">>, 200)
            ELSE dresp' =
                   FakeResponse(device_state[device_id][component][capability],
                                200)
  /\ UNCHANGED <<store, test_id, triggerVars, inflight>>

DeviceNext ==
  \/ \E new_test_id \in Sessions : SetTestId(new_test_id)
  \/ \E sid \in Sessions : \E device_state \in InitialTrees :
       SetDeviceState(sid, device_state)
  \/ \E device_id \in DeviceIds : \E commands \in CommandLists :
       Post(device_id, commands)

\* The backend runs in the test process, apart from the trigger server: its
\* behaviours are explored with the check routines at one fixed result.
DeviceInit == Init /\ routine = [f \in Fns |-> "False"]

DeviceSpec == DeviceInit /\ [][DeviceNext]_vars

\* ------------------------------------------------------------------------
\* The backend under the requests of one capability at a time
\* ------------------------------------------------------------------------
\* The POST bodies made of the given command entries.
ListsOf(entries) == UNION {[1..n -> entries] : n \in 1..MaxCmds}

\* switch: the two accepted commands and one that is not.
SwitchEntries ==
  {Command("main", "switch", "on", <<>>),
   Command("main", "switch", "off", <<>>),
   Command("main", "switch", "spin", <<>>)}

SwitchNext ==
  \/ \E new_test_id \in Sessions : SetTestId(new_test_id)
  \/ \E sid \in Sessions : SetDeviceState(sid, BaseTree)
  \/ \E device_id \in DeviceIds : \E commands \in ListsOf(SwitchEntries) :
       Post(device_id, commands)

SwitchSpec == DeviceInit /\ [][SwitchNext]_vars

\* The commands each capability branch of request() accepts.
AcceptedCommands(capability) ==
  CASE capability = "switch" -> {"on", "off"}
    [] capability = "switchLevel" -> {"setLevel"}
    [] capability = "colorTemperature" -> {"setColorTemperature"}
    [] capability = "colorControl" -> {"setHue", "setSaturation", "setColor"}
    [] capability = "tvChannel" -> {"setTvChannel"}
    [] capability = "audioVolume" -> {"setVolume", "volumeDown", "volumeUp"}
    [] capability = "refresh" -> {"refresh"}
    [] capability = "samsungce.dishwasherWashingCourse" -> {"setWashingCourse"}
    [] capability = "execute" -> {"start"}
    [] capability = "custom.thermostatSetpointControl" -> {"setSetpoint"}
    [] capability = "dishwasherOperatingState" -> {"setMachineState"}
    [] capability = "thermostatCoolingSetpoint" -> {"setCoolingSetpoint"}
    [] OTHER -> {}

\* Pairs no branch accepts: an unknown capability, and known capabilities
\* with a command of another name; with them one accepted command.
UnsupportedEntries ==
  {Command("main", "lock", "lock", <<>>),
   Command("main", "switchLevel", "dim", <<>>),
   Command("main", "colorTemperature", "warm", <<>>),
   Command("main", "colorControl", "blink", <<>>),
   Command("main", "switch", "on", <<>>)}

UnsupportedNext ==
  \/ \E new_test_id \in Sessions : SetTestId(new_test_id)
  \/ \E sid \in Sessions : SetDeviceState(sid, BaseTree)
  \/ \E device_id \in DeviceIds : \E commands \in ListsOf(UnsupportedEntries) :
       Post(device_id, commands)

UnsupportedSpec == DeviceInit /\ [][UnsupportedNext]_vars

\* GET: components and capabilities a status URL names, present in the tree
\* or not.
GetComponents == {"main", "aux"}

GetCapabilities == {"switch", "lock"}

GetNext ==
  \/ \E new_test_id \in Sessions : SetTestId(new_test_id)
  \/ \E sid \in Sessions : SetDeviceState(sid, BaseTree)
  \/ \E device_id \in DeviceIds :
       Post(device_id, <<Command("main", "switch", "on", <<>>)>>)
  \/ \E device_id \in DeviceIds : GetDevice(device_id)
  \/ \E device_id \in DeviceIds : \E component \in GetComponents :
       \E capability \in GetCapabilities :
         GetStatus(device_id, component, capability)

GetSpec == DeviceInit /\ [][GetNext]_vars

\* A device with a main component and a cooler component that has the
\* cooling setpoint and the measured temperature.
FridgeTree ==
  [fridge |->
     [main |-> [switch |-> [switch |-> Attr("on")]],
      cooler |->
        [thermostatCoolingSetpoint |-> [coolingSetpoint |-> Attr(3)],
         temperatureMeasurement |-> [temperature |-> Attr(3)]]]]

\* thermostatCoolingSetpoint on the main component and on the cooler, with
\* an accepted switch command to precede them.
ThermostatEntries ==
  {Command("main", "thermostatCoolingSetpoint", "setCoolingSetpoint",
           <<IntArg(5)>>),
   Command("main", "thermostatCoolingSetpoint", "getCoolingSetpoint", <<>>),
   Command("cooler", "thermostatCoolingSetpoint", "setCoolingSetpoint",
           <<IntArg(5)>>),
   Command("cooler", "thermostatCoolingSetpoint", "setCoolingSetpoint",
           <<IntArg(7)>>),
   Command("main", "switch", "off", <<>>)}

ThermostatNext ==
  \/ \E new_test_id \in Sessions : SetTestId(new_test_id)
  \/ \E sid \in Sessions : SetDeviceState(sid, FridgeTree)
  \/ \E commands \in ListsOf(ThermostatEntries) : Post("fridge", commands)

ThermostatSpec == DeviceInit /\ [][ThermostatNext]_vars

\* colorControl: hue values at and above the limit of 100.
ColorEntries ==
  {Command("main", "colorControl", "setHue", <<IntArg(101)>>),
   Command("main", "colorControl", "setHue", <<IntArg(100)>>),
   Command("main", "colorControl", "setColor", <<ColorArg(101, 80)>>),
   Command("main", "colorControl", "setColor", <<ColorArg(100, 80)>>),
   Command("main", "colorControl", "setColor", <<ColorArg(40, 20)>>)}

ColorNext ==
  \/ \E new_test_id \in Sessions : SetTestId(new_test_id)
  \/ \E sid \in Sessions : SetDeviceState(sid, BaseTree)
  \/ \E commands \in ListsOf(ColorEntries) : Post("light", commands)

ColorSpec == DeviceInit /\ [][ColorNext]_vars

\* audioVolume: requests are made while the stored volume is within
\* MaxVolume of zero.
MaxVolume == 20

StartVolumes == {3, 10}

TvTree(volume) ==
  [BaseTree EXCEPT !.tv.main.audioVolume.volume.value = volume]

VolumeEntries ==
  {Command("main", "audioVolume", "volumeUp", <<>>),
   Command("main", "audioVolume", "volumeDown", <<>>)}

VolumePost(commands) ==
  /\ test_id \in DOMAIN store =>
       LET volume == store[test_id].tv.main.audioVolume.volume.value IN
       volume <= MaxVolume /\ volume >= -MaxVolume
  /\ Post("tv", commands)

VolumeNext ==
  \/ \E new_test_id \in Sessions : SetTestId(new_test_id)
  \/ \E sid \in Sessions : \E volume \in StartVolumes :
       SetDeviceState(sid, TvTree(volume))
  \/ \E commands \in ListsOf(VolumeEntries) : VolumePost(commands)

VolumeSpec == DeviceInit /\ [][VolumeNext]_vars

\* ------------------------------------------------------------------------
\* A routine that never returns
\* ------------------------------------------------------------------------
StuckOutcomes == Results \cup {"hang"}

\* The poller enters a routine that does not return: the process stays
\* alive inside run_code, with its registries, and sends nothing more.
PollerStuck ==
  /\ palive = "running"
  /\ Len(pconds) > 0
  /\ PollerHangs
  /\ palive' = "stuck"
  /\ UNCHANGED <<serverVars, chan, pconds, pcodes, pidx, routine, deviceVars>>

StuckNext ==
  \/ CheckTriggers
  \/ \E reqjson \in ManualPayloads : ManualTrigger(reqjson)
  \/ \E cond \in CondRecs : \E code \in CodeMaps(cond) : AddCondition(cond, code)
  \/ Reset
  \/ PollTick
  \/ PollerEval
  \/ PollerStuck
  \/ \E f \in Fns : \E outcome \in StuckOutcomes : EnvChange(f, outcome)

StuckSpec == Init /\ [][StuckNext]_vars

\* ------------------------------------------------------------------------
\* Two condition records for one routine
\* ------------------------------------------------------------------------
\* Two records that name the same routine and differ in the action and the
\* user to notify.
SameNameRecs ==
  {CondRec("f1", "True", "a1", "u1"), CondRec("f1", "True", "a3", "u2")}

SameNameNext ==
  \/ CheckTriggers
  \/ \E reqjson \in ManualPayloads : ManualTrigger(reqjson)
  \/ \E cond \in SameNameRecs : \E code \in CodeMaps(cond) :
       AddCondition(cond, code)
  \/ Reset
  \/ PollTick
  \/ PollerEval
  \/ \E f \in Fns : \E outcome \in Outcomes : EnvChange(f, outcome)

SameNameSpec == Init /\ [][SameNameNext]_vars

\* ------------------------------------------------------------------------
\* Conditions registered through NotifyOnConditionTool
\* ------------------------------------------------------------------------
\* The tool always sends the code entry of the condition's routine.
ToolCodeMaps(cond) == CodeMaps(cond) \ {EmptyCodes}

ToolNext ==
  \/ CheckTriggers
  \/ \E reqjson \in ManualPayloads : ManualTrigger(reqjson)
  \/ \E cond \in CondRecs : \E code \in ToolCodeMaps(cond) :
       AddCondition(cond, code)
  \/ Reset
  \/ PollTick
  \/ PollerEval
  \/ \E f \in Fns : \E outcome \in Outcomes : EnvChange(f, outcome)

ToolLiveSpec == Init /\ [][ToolNext]_vars /\ Fairness

\* ------------------------------------------------------------------------
\* POST /add_condition with a body that has no "condition" key
\* ------------------------------------------------------------------------
\* The "code" part of such a body: absent, or one entry under any name.
MalformedCodeMaps ==
  {EmptyCodes} \cup
  {[f \in {fn} |-> e] : fn \in Fns, e \in CodeEntries}

\* _add_condition on such a body: the code map, when there is one, is merged
\* into self.codes, then reqjson["condition"] raises KeyError and the handler
\* ends there: no append, no poller_args, no run_process.
AddConditionWithoutCondition(code) ==
  /\ codes' = DictUpdate(codes, code)
  /\ UNCHANGED <<conditions, triggers, resp, chan, pollerVars, routine,
                 deviceVars>>

MalformedNext ==
  \/ CheckTriggers
  \/ \E reqjson \in ManualPayloads : ManualTrigger(reqjson)
  \/ \E cond \in CondRecs : \E code \in CodeMaps(cond) : AddCondition(cond, code)
  \/ \E code \in MalformedCodeMaps : AddConditionWithoutCondition(code)
  \/ Reset
  \/ PollTick
  \/ PollerEval
  \/ \E f \in Fns : \E outcome \in Outcomes : EnvChange(f, outcome)

MalformedSpec == Init /\ [][MalformedNext]_vars

\* ------------------------------------------------------------------------
\* ExecuteCommandTool on top of the simulated backend
\* ------------------------------------------------------------------------
\* dm.default_devices
DefaultDevices == {"light", "tv"}

\* What one requests_module.post of the tool does to the collection and what
\* it answers, for a session that has a tree.
ToolPost(db, device_id, body) ==
  LET run == RunCommands(GetDeviceState(db, test_id), device_id, body, FALSE) IN
  IF run.outcome = "raised"
    THEN [store |-> db, response |-> FakeResponse("An error occurred", 500)]
  ELSE IF run.outcome = "unsupported"
    THEN [store |-> db,
          response |-> FakeResponse("capability not supported yet", 500)]
  ELSE [store |-> IF run.update_state
                    THEN DbSet(db, test_id, run.device_state)
                    ELSE db,
        response |-> FakeResponse("successfully executed command", 200)]

\* ExecuteCommandTool._run: an unknown device returns before any request;
\* the body holds the one command; the tool posts it, returns the error of
\* a response that is not 200, and otherwise posts the same body again and
\* returns the json of that second response.
ExecuteCommand(device_id, exec_spec) ==
  /\ device_id \in DefaultDevices
  /\ dreq' = [method |-> "execute_command", device_id |-> device_id,
              commands |-> <<exec_spec>>]
  /\ IF test_id = "-1" \/ test_id \notin DOMAIN store
       THEN /\ dresp' = Raises
            /\ UNCHANGED store
       ELSE LET response == ToolPost(store, device_id, <<exec_spec>>) IN
            IF response.response.status_code # 200
              THEN /\ dresp' = response.response
                   /\ store' = response.store
              ELSE LET again == ToolPost(response.store, device_id, <<exec_spec>>)
                   IN
                   /\ dresp' = again.response
                   /\ store' = again.store
  /\ UNCHANGED <<test_id, triggerVars, inflight>>

ExecuteEntries == VolumeEntries \cup {Command("main", "lock", "lock", <<>>)}

ExecuteVolume(exec_spec) ==
  /\ test_id \in DOMAIN store =>
       LET volume == store[test_id].tv.main.audioVolume.volume.value IN
       volume <= MaxVolume /\ volume >= -MaxVolume
  /\ ExecuteCommand("tv", exec_spec)

ExecuteNext ==
  \/ \E new_test_id \in Sessions : SetTestId(new_test_id)
  \/ \E sid \in Sessions : \E volume \in StartVolumes :
       SetDeviceState(sid, TvTree(volume))
  \/ \E exec_spec \in ExecuteEntries : ExecuteVolume(exec_spec)

ExecuteSpec == DeviceInit /\ [][ExecuteNext]_vars

\* ------------------------------------------------------------------------
\* request() as the two steps other processes can come between
\* ------------------------------------------------------------------------
\* The requests of the two processes: a switch command for one of two
\* devices.
RaceRequests ==
  {<<device_id, <<Command("main", "switch", command, <<>>)>> >> :
     device_id \in {"light", "tv"}, command \in {"on", "off"}}

\* request("post", ...) up to device_state = db.get_device_state(test_id[0]):
\* the process holds a copy of the tree as it is stored now.
RequestRead(p, device_id, commands) ==
  /\ inflight[p] = Idle
  /\ IF test_id = "-1" \/ test_id \notin DOMAIN store
       THEN /\ dreq' = [method |-> "post", device_id |-> device_id,
                        commands |-> commands]
            /\ dresp' = Raises
            /\ UNCHANGED inflight
       ELSE /\ inflight' =
                 [inflight EXCEPT
                    ![p] = [busy |-> TRUE, sid |-> test_id,
                            device_id |-> device_id, commands |-> commands,
                            device_state |-> GetDeviceState(store, test_id)]]
            /\ UNCHANGED <<dreq, dresp>>
  /\ UNCHANGED <<store, test_id, triggerVars>>

\* The rest of request("post", ...): the commands are applied to the copy,
\* and db.set_device_state(test_id[0], device_state) stores the copy.
RequestWrite(p) ==
  /\ inflight[p] # Idle
  /\ LET device_id == inflight[p].device_id
         commands == inflight[p].commands
         run == RunCommands(inflight[p].device_state, device_id, commands, FALSE)
     IN
     /\ dreq' = [method |-> "post", device_id |-> device_id,
                 commands |-> commands]
     /\ IF run.outcome = "raised"
          THEN /\ dresp' = FakeResponse("An error occurred", 500)
               /\ UNCHANGED store
        ELSE IF run.outcome = "unsupported"
          THEN /\ dresp' = FakeResponse("capability not supported yet", 500)
               /\ UNCHANGED store
        ELSE /\ dresp' = FakeResponse("successfully executed command", 200)
             /\ store' = IF run.update_state
                           THEN DbSet(store, test_id, run.device_state)
                           ELSE store
  /\ inflight' = [inflight EXCEPT ![p] = Idle]
  /\ UNCHANGED <<test_id, triggerVars>>

\* setup() of a test case: the session's tree is stored once.
SetupSession(sid) ==
  /\ sid \notin DOMAIN store
  /\ SetDeviceState(sid, BaseTree)

RaceNext ==
  \/ \E new_test_id \in Sessions : SetTestId(new_test_id)
  \/ \E sid \in Sessions : SetupSession(sid)
  \/ \E p \in Procs : \E request \in RaceRequests :
       RequestRead(p, request[1], request[2])
  \/ \E p \in Procs : RequestWrite(p)

RaceSpec == DeviceInit /\ [][RaceNext]_vars

\* ------------------------------------------------------------------------
\* Steps and counts the properties speak about
\* ------------------------------------------------------------------------
AddConditionStep ==
  \E cond \in CondRecs : \E code \in CodeMaps(cond) : AddCondition(cond, code)

ManualTriggerStep == \E reqjson \in ManualPayloads : ManualTrigger(reqjson)

\* What /check_triggers returns for a fired condition.
NotificationOf(cond) ==
  [user |-> cond.user_name, command |-> cond.action_description]

\* The poller evaluates a routine that returns: the step of check_conditions
\* in which status is compared with last_result.
PollerCompares == PollerEval /\ ~PollerRaises

\* Messages for cond sent by the running poller and not yet returned.
PendingFor(cond) ==
  Cardinality({k \in 1..Len(chan) : TriggerOut(chan[k]) = NotificationOf(cond)})
    + Cardinality({k \in 1..Len(triggers) : triggers[k] = NotificationOf(cond)})

\* ------------------------------------------------------------------------
\* C1. Edge-triggering within one poller instance: whenever the poller
\* evaluates a condition with notify_when true and the routine returns true
\* while the last_result it holds is false, it sends exactly one message, the
\* one of that condition, and records true; whenever the routine returns true
\* while the recorded last_result is already true, it sends nothing and the
\* record stays true.
\* ------------------------------------------------------------------------
C1_EdgeTriggering ==
  [][(PollerCompares /\ CurCond.notify_when = "True" /\ RunCode(CurFn) = "True") =>
       /\ pcodes[CurFn].last_result = "False" =>
            /\ chan' = Append(chan, PollerMessage(CurCond, pconds))
            /\ pcodes'[CurFn].last_result = "True"
       /\ pcodes[CurFn].last_result = "True" =>
            /\ chan' = chan
            /\ pcodes' = pcodes]_vars

\* The condition seeded false has fired once, its routine still returns true,
\* and a later cycle has evaluated it again without a second message.
C1_Witness ==
  /\ Len(pconds) = 2
  /\ pconds[1].notify_when = "True"
  /\ pconds[1].function_name \in DOMAIN codes
  /\ codes[pconds[1].function_name].last_result = "False"
  /\ pcodes[pconds[1].function_name].last_result = "True"
  /\ routine[pconds[1].function_name] = "True"
  /\ pconds[2] # pconds[1]
  /\ pidx = 1
  /\ PendingFor(pconds[1]) = 1

\* ------------------------------------------------------------------------
\* C2. Restart preserves history: when add_condition for a condition with
\* another routine restarts the poller, every condition whose routine holds
\* its notify_when value, recorded as such by the old poller, has the same
\* last_result in the new poller.
\* ------------------------------------------------------------------------
C2_RestartKeepsLastResult ==
  [][\A cond \in CondRecs : \A code \in CodeMaps(cond) :
       AddCondition(cond, code) =>
         \A i \in 1..Len(pconds) :
           LET fn == pconds[i].function_name IN
           (/\ cond.function_name # fn
            /\ fn \in DOMAIN pcodes
            /\ fn \in DOMAIN codes
            /\ palive = "running"
            /\ pcodes[fn].last_result = pconds[i].notify_when
            /\ RunCode(fn) = pconds[i].notify_when)
             => pcodes'[fn].last_result = pcodes[fn].last_result]_vars

\* ------------------------------------------------------------------------
\* C3. Fail-soft isolation: when the routine of a condition raises and a
\* condition with another routine is registered after it, the poller keeps
\* running.
\* ------------------------------------------------------------------------
C3_RaisingRoutineKeepsPollerRunning ==
  [][(/\ PollerEval
      /\ CurFn \in DOMAIN pcodes
      /\ RunCode(CurFn) = "raise"
      /\ \E j \in (pidx + 2)..Len(pconds) :
           /\ pconds[j].function_name # CurFn
           /\ pconds[j].function_name \in DOMAIN pcodes)
       => palive' = "running"]_vars

\* ------------------------------------------------------------------------
\* C4. reset() clears all server-side state: once the condition list, the
\* code registry and the trigger buffer are empty they stay empty until the
\* next add_condition or trigger_manually request.
\* ------------------------------------------------------------------------
ServerStateEmpty ==
  /\ conditions = <<>>
  /\ codes = EmptyCodes
  /\ triggers = <<>>

C4_ResetStaysEmpty ==
  [][/\ Reset => ServerStateEmpty'
     /\ (ServerStateEmpty /\ ~AddConditionStep /\ ~ManualTriggerStep)
          => ServerStateEmpty']_vars

\* ------------------------------------------------------------------------
\* C5. check_triggers returns the oldest buffered message and removes it in
\* the same step; no other step returns a message, and every other step
\* either empties the buffer or leaves its entries where they are, so a
\* buffered message is returned at most once.
\* ------------------------------------------------------------------------
C5_ReturnedAtMostOnce ==
  [][/\ (CheckTriggers /\ triggers # <<>>) =>
          /\ resp' = Returned(Head(triggers))
          /\ triggers' = Tail(triggers)
     /\ resp' # resp => CheckTriggers
     /\ ~CheckTriggers =>
          \/ triggers' = <<>>
          \/ /\ Len(triggers') >= Len(triggers)
             /\ SubSeq(triggers', 1, Len(triggers)) = triggers]_vars

\* A message has been returned while another one is still buffered.
C5_Witness ==
  /\ resp.status = "message"
  /\ triggers # <<>>
  /\ chan # <<>>

\* ------------------------------------------------------------------------
\* C6. Idempotent drain: check_triggers on an empty buffer returns the empty
\* result and changes neither the buffer, the condition list, the code
\* registry, the pipe nor the poller process.
\* ------------------------------------------------------------------------
C6_IdempotentDrain ==
  [][(CheckTriggers /\ triggers = <<>>) =>
       /\ resp' = EmptyResult
       /\ UNCHANGED <<triggers, conditions, codes, chan, pollerVars>>]_vars

\* The empty result was returned with conditions registered and a poller
\* running, and the buffer is still empty.
C6_Witness ==
  /\ resp = EmptyResult
  /\ triggers = <<>>
  /\ Len(conditions) = 2
  /\ palive = "running"

\* ------------------------------------------------------------------------
\* C7. Atomic command rejection: every POST to the commands endpoint that is
\* answered with status 500 leaves the stored device trees exactly as they
\* were before the call, also when command entries before the failing one
\* were valid and had changed the request's working copy of the tree.
\* ------------------------------------------------------------------------
C7_AtomicCommandRejection ==
  [][(/\ dreq'.method = "post"
      /\ Post(dreq'.device_id, dreq'.commands)
      /\ dresp' # Raises
      /\ dresp'.status_code = 500)
     => store' = store]_vars

\* A request whose first entry is valid and whose second is rejected was
\* answered with 500, and the session's tree is still the one first stored.
C7_Witness ==
  /\ dreq.method = "post"
  /\ dreq.device_id = "light"
  /\ dreq.commands =
       <<Command("main", "switch", "on", <<>>),
         Command("main", "switchLevel", "setLevel", <<StrArg("red")>>)>>
  /\ dresp = FakeResponse("An error occurred", 500)
  /\ test_id \in DOMAIN store
  /\ store[test_id] = BaseTree

\* ------------------------------------------------------------------------
\* C8. End-to-end delivery: with a single registered condition with
\* notify_when true and last_result false, a running poller and nothing
\* pending, once the routine returns true then, unless the routine stops
\* returning true, the condition list changes or a manual trigger is
\* injected, eventually exactly one message for the condition is pending,
\* and it is at the head of the buffer; check_triggers then returns it with
\* the condition's user_name and action_description.
\* ------------------------------------------------------------------------
C8_Registered(cond) ==
  /\ conditions = <<cond>>
  /\ pconds = <<cond>>
  /\ palive = "running"
  /\ cond.function_name \in DOMAIN pcodes
  /\ pcodes[cond.function_name].last_result = "False"
  /\ routine[cond.function_name] = "True"
  /\ chan = <<>>
  /\ triggers = <<>>

C8_Disturbed(cond) ==
  \/ routine[cond.function_name] # "True"
  \/ conditions # <<cond>>
  \/ \E k \in 1..Len(triggers) : triggers[k] \in ManualPayloads

C8_Retrievable(cond) ==
  /\ triggers # <<>>
  /\ Head(triggers) = NotificationOf(cond)
  /\ PendingFor(cond) = 1

C8_EndToEndDelivery ==
  /\ \A cond \in {c \in CondRecs : c.notify_when = "True"} :
       C8_Registered(cond) ~> (C8_Retrievable(cond) \/ C8_Disturbed(cond))
  /\ [][\A cond \in {c \in CondRecs : c.notify_when = "True"} :
         (CheckTriggers /\ C8_Retrievable(cond)) =>
            /\ resp'.status = "message"
            /\ resp'.body.user = cond.user_name
            /\ resp'.body.command = cond.action_description]_vars

\* The single condition, seeded false, fired once and check_triggers
\* returned its message.
C8_Witness ==
  /\ Len(conditions) = 1
  /\ conditions[1].notify_when = "True"
  /\ pconds = conditions
  /\ conditions[1].function_name \in DOMAIN codes
  /\ codes[conditions[1].function_name].last_result = "False"
  /\ pcodes[conditions[1].function_name].last_result = "True"
  /\ routine[conditions[1].function_name] = "True"
  /\ resp = Returned(NotificationOf(conditions[1]))
  /\ triggers = <<>>
  /\ chan = <<>>

\* ------------------------------------------------------------------------
\* C9. No sent message is lost by a restart: the messages in the pipe when
\* add_condition restarts the poller are still in the pipe or in the buffer
\* afterwards.
\* ------------------------------------------------------------------------
C9_RestartKeepsSentMessages ==
  [][AddConditionStep =>
       Len(chan') + Len(triggers') >= Len(chan) + Len(triggers)]_vars

\* ------------------------------------------------------------------------
\* C10. FIFO delivery: within a cycle the poller goes through its registry
\* in order, the registry of a new poller is the condition list in
\* registration order, every message enters the buffer at the tail, and
\* check_triggers takes the head.
\* ------------------------------------------------------------------------
C10_FifoDelivery ==
  [][/\ PollerCompares => pidx' \in {0, pidx + 1}
     /\ \A cond \in CondRecs : \A code \in CodeMaps(cond) :
          AddCondition(cond, code) => pconds' = Append(conditions, cond)
     /\ triggers' # triggers =>
          \/ Reset /\ triggers' = <<>>
          \/ CheckTriggers /\ triggers' = Tail(triggers)
                           /\ resp' = Returned(Head(triggers))
          \/ PollTick /\ triggers' = Append(triggers, TriggerOut(Head(chan)))
          \/ \E reqjson \in ManualPayloads :
               ManualTrigger(reqjson) /\ triggers' = Append(triggers, reqjson)]_vars

\* The poller's message arrived before the manual one and was returned
\* first; the manual one is now the oldest.
C10_Witness ==
  /\ resp.status = "message"
  /\ \E cond \in CondRecs : resp.body = NotificationOf(cond)
  /\ triggers # <<>>
  /\ Head(triggers) \in ManualPayloads

\* ------------------------------------------------------------------------
\* C11. switch: a request with the single command on or off, for a device
\* and component that have the capability, is answered with success and
\* stores the tree with switch.value set to the command name and nothing else
\* changed; a request holding a switch command other than on and off is
\* answered with an error and the stored trees are unchanged.
\* ------------------------------------------------------------------------
PostStep == dreq'.method = "post" /\ Post(dreq'.device_id, dreq'.commands)

PostAnswered == PostStep /\ dresp' # Raises

\* The device and the component exist in the tree of the current session.
Addressable(device_id, component) ==
  /\ test_id \in DOMAIN store
  /\ device_id \in DOMAIN store[test_id]
  /\ component \in DOMAIN store[test_id][device_id]

HasAttribute(device_id, component, capability, attribute) ==
  /\ Addressable(device_id, component)
  /\ capability \in DOMAIN store[test_id][device_id][component]
  /\ attribute \in DOMAIN store[test_id][device_id][component][capability]

C11_Switch ==
  [][PostAnswered =>
       LET device_id == dreq'.device_id
           commands == dreq'.commands
       IN
       /\ (/\ Len(commands) = 1
           /\ commands[1].capability = "switch"
           /\ commands[1].command \in {"on", "off"}
           /\ HasAttribute(device_id, commands[1].component, "switch", "switch"))
          => /\ dresp'.status_code = 200
             /\ store' =
                  DbSet(store, test_id,
                        [store[test_id] EXCEPT
                           ![device_id][commands[1].component].switch.switch.value =
                              commands[1].command])
       /\ (\E k \in 1..Len(commands) :
             /\ commands[k].capability = "switch"
             /\ commands[k].command \notin {"on", "off"})
          => /\ dresp'.status_code = 500
             /\ store' = store]_vars

\* The switch was turned on, and a spin sent after that was answered with an
\* error and left it on.
C11_Witness ==
  /\ test_id \in DOMAIN store
  /\ store[test_id].light.main.switch.switch.value = "on"
  /\ dreq.method = "post"
  /\ dreq.device_id = "light"
  /\ dreq.commands = <<Command("main", "switch", "spin", <<>>)>>
  /\ dresp = FakeResponse("An error occurred", 500)

\* ------------------------------------------------------------------------
\* C12. Re-registration replaces the prior record: after an add_condition
\* for a routine name the condition list already holds, the list holds
\* exactly one record for that name, and the code registry holds exactly the
\* entry sent with the later request.
\* ------------------------------------------------------------------------
RecordsFor(fn) == {k \in 1..Len(conditions) : conditions[k].function_name = fn}

C12_ReRegistrationReplaces ==
  [][\A cond \in CondRecs : \A code \in CodeMaps(cond) :
       (/\ AddCondition(cond, code)
        /\ code # EmptyCodes
        /\ RecordsFor(cond.function_name) # {})
       => /\ Cardinality(RecordsFor(cond.function_name)') = 1
          /\ codes'[cond.function_name] = code[cond.function_name]]_vars

\* ------------------------------------------------------------------------
\* C13. Unsupported pairs: a request with a single command entry whose
\* command is not one its capability accepts (an unknown capability, or a
\* known one with another command), for a device and component of the tree,
\* is answered with an error result and never with the success result.
\* ------------------------------------------------------------------------
C13_UnsupportedPairRejected ==
  [][PostAnswered =>
       LET commands == dreq'.commands IN
       (/\ Len(commands) = 1
        /\ commands[1].command \notin AcceptedCommands(commands[1].capability)
        /\ Addressable(dreq'.device_id, commands[1].component))
       => /\ dresp'.status_code = 500
          /\ dresp'.json # "successfully executed command"]_vars

\* ------------------------------------------------------------------------
\* C14. GET: every GET made in a session that has a stored tree, in the
\* whole-device form and in the status form, returns a response (the
\* attribute values or a no-such-device/component/capability body) and does
\* not raise, whatever device, component and capability the URL names, and
\* it leaves the stored trees unchanged.
\* ------------------------------------------------------------------------
GetStep ==
  /\ dreq'.method = "get"
  /\ IF dreq'.form = "device"
       THEN GetDevice(dreq'.device_id)
       ELSE GetStatus(dreq'.device_id, dreq'.component, dreq'.capability)

C14_GetNeverRaises ==
  [][(GetStep /\ test_id \in DOMAIN store) =>
       /\ dresp' # Raises
       /\ store' = store]_vars

\* ------------------------------------------------------------------------
\* C15. Session isolation: set_device_state(s1, t) replaces or inserts the
\* tree of s1 only, get_device_state of every other session returns what it
\* returned before, and the tree get_device_state(s) returns changes only
\* by a set_device_state for s: the harness's, or the one a successful POST
\* of session s ends with.
\* ------------------------------------------------------------------------
C15_SessionIsolation ==
  [][/\ \A sid \in Sessions : \A device_state \in InitialTrees :
          SetDeviceState(sid, device_state) =>
            /\ DOMAIN store' = DOMAIN store \cup {sid}
            /\ GetDeviceState(store', sid) = device_state
            /\ \A other \in DOMAIN store \ {sid} :
                 GetDeviceState(store', other) = GetDeviceState(store, other)
     /\ PostStep =>
          /\ DOMAIN store' = DOMAIN store
          /\ \A other \in DOMAIN store \ {test_id} :
               GetDeviceState(store', other) = GetDeviceState(store, other)
     /\ \A sid \in DOMAIN store :
          (sid \in DOMAIN store'
           /\ GetDeviceState(store', sid) # GetDeviceState(store, sid))
          => \/ \E device_state \in InitialTrees :
                  SetDeviceState(sid, device_state)
             \/ PostStep /\ test_id = sid]_vars

\* Two sessions hold different trees: a POST changed the tree of s1, and
\* the tree stored for s2 is still the one its set_device_state stored.
C15_Witness ==
  /\ DOMAIN store = Sessions
  /\ store["s2"] = BaseTree
  /\ store["s1"] # BaseTree
  /\ test_id = "s1"
  /\ dreq.method = "post"
  /\ dresp = FakeResponse("successfully executed command", 200)

\* ------------------------------------------------------------------------
\* C16. Polarity: when the poller finds a result that differs from the
\* recorded last_result and is not the condition's notify_when, it sends
\* nothing and records the new result; when it then finds a result that
\* differs from the record and is the notify_when value, it sends the
\* condition's message.
\* ------------------------------------------------------------------------
C16_Polarity ==
  [][(PollerCompares /\ pcodes[CurFn].last_result # RunCode(CurFn)) =>
       /\ pcodes'[CurFn].last_result = RunCode(CurFn)
       /\ RunCode(CurFn) # CurCond.notify_when => chan' = chan
       /\ RunCode(CurFn) = CurCond.notify_when
            => chan' = Append(chan, PollerMessage(CurCond, pconds))]_vars

\* A condition seeded with its notify_when value was silently updated to the
\* other result, and after the result came back its one message is pending.
C16_Witness ==
  /\ Len(pconds) = 1
  /\ palive = "running"
  /\ pconds[1].function_name \in DOMAIN codes
  /\ codes[pconds[1].function_name].last_result = pconds[1].notify_when
  /\ pcodes[pconds[1].function_name].last_result = pconds[1].notify_when
  /\ PendingFor(pconds[1]) = 1
  /\ resp = NoResponse

\* ------------------------------------------------------------------------
\* C17. thermostatCoolingSetpoint: a request holding a
\* thermostatCoolingSetpoint command for the main component is answered with
\* an error and leaves the stored trees unchanged; a request with the single
\* command setCoolingSetpoint(v) for another component that has the
\* capability and a measured temperature is answered with success and
\* stores the tree with coolingSetpoint.value and
\* temperatureMeasurement.temperature.value both v, nothing else changed.
\* ------------------------------------------------------------------------
C17_ThermostatCoolingSetpoint ==
  [][PostAnswered =>
       LET device_id == dreq'.device_id
           commands == dreq'.commands
       IN
       /\ (\E k \in 1..Len(commands) :
             /\ commands[k].capability = "thermostatCoolingSetpoint"
             /\ commands[k].component = "main")
          => /\ dresp'.status_code = 500
             /\ store' = store
       /\ (/\ Len(commands) = 1
           /\ commands[1].capability = "thermostatCoolingSetpoint"
           /\ commands[1].command = "setCoolingSetpoint"
           /\ commands[1].component # "main"
           /\ Len(commands[1].arguments) > 0
           /\ HasAttribute(device_id, commands[1].component,
                           "thermostatCoolingSetpoint", "coolingSetpoint")
           /\ HasAttribute(device_id, commands[1].component,
                           "temperatureMeasurement", "temperature"))
          => /\ dresp'.status_code = 200
             /\ store' =
                  DbSet(store, test_id,
                        [store[test_id] EXCEPT
                           ![device_id][commands[1].component]
                              .thermostatCoolingSetpoint.coolingSetpoint.value =
                                ArgValue(commands[1].arguments[1]),
                           ![device_id][commands[1].component]
                              .temperatureMeasurement.temperature.value =
                                ArgValue(commands[1].arguments[1])])]_vars

\* The cooler was set to 7, and a request that turned the switch off and
\* then addressed the main component was answered with an error: the switch
\* is still on and the cooler still at 7.
C17_Witness ==
  /\ test_id \in DOMAIN store
  /\ store[test_id].fridge.cooler.thermostatCoolingSetpoint.coolingSetpoint.value = 7
  /\ store[test_id].fridge.cooler.temperatureMeasurement.temperature.value = 7
  /\ store[test_id].fridge.main.switch.switch.value = "on"
  /\ dreq.method = "post"
  /\ dreq.commands =
       <<Command("main", "switch", "off", <<>>),
         Command("main", "thermostatCoolingSetpoint", "setCoolingSetpoint",
                 <<IntArg(5)>>)>>
  /\ dresp = FakeResponse("An error occurred", 500)

\* ------------------------------------------------------------------------
\* C18. colorControl: a request holding setHue(h) or setColor({hue: h,
\* saturation: s}) with h > 100 is answered with an error and the stored
\* hue and saturation are unchanged; a request with the single command
\* setColor({hue: h, saturation: s}) with h <= 100 is answered with success
\* and its one write stores hue h together with saturation s, so no stored
\* tree ever has the hue of a setColor with the saturation from before it.
\* ------------------------------------------------------------------------
HueOf(com) ==
  IF com.command = "setHue" THEN com.arguments[1].int
  ELSE com.arguments[1].hue

C18_ColorControl ==
  [][PostAnswered =>
       LET device_id == dreq'.device_id
           commands == dreq'.commands
       IN
       /\ (\E k \in 1..Len(commands) :
             /\ commands[k].capability = "colorControl"
             /\ commands[k].command \in {"setHue", "setColor"}
             /\ HueOf(commands[k]) > 100)
          => /\ dresp'.status_code = 500
             /\ store' = store
       /\ (/\ Len(commands) = 1
           /\ commands[1].capability = "colorControl"
           /\ commands[1].command = "setColor"
           /\ HueOf(commands[1]) <= 100
           /\ HasAttribute(device_id, commands[1].component, "colorControl",
                           "hue")
           /\ HasAttribute(device_id, commands[1].component, "colorControl",
                           "saturation"))
          => /\ dresp'.status_code = 200
             /\ store' =
                  DbSet(store, test_id,
                        [store[test_id] EXCEPT
                           ![device_id][commands[1].component].colorControl =
                              [hue |-> Attr(commands[1].arguments[1].hue),
                               saturation |->
                                 Attr(commands[1].arguments[1].saturation)]])]_vars

\* setColor stored hue 40 with saturation 20, and a setColor with hue 101
\* sent after it was answered with an error and changed neither.
C18_Witness ==
  /\ test_id \in DOMAIN store
  /\ store[test_id].light.main.colorControl.hue.value = 40
  /\ store[test_id].light.main.colorControl.saturation.value = 20
  /\ dreq.method = "post"
  /\ dreq.commands =
       <<Command("main", "colorControl", "setColor", <<ColorArg(101, 80)>>)>>
  /\ dresp = FakeResponse("An error occurred", 500)

\* ------------------------------------------------------------------------
\* C19. audioVolume: a request made of volumeUp and volumeDown entries for
\* a component that has the capability is answered with success and stores
\* the tree with volume.value raised by exactly 5 for each volumeUp and
\* lowered by exactly 5 for each volumeDown, whatever the volume was; so a
\* single volumeUp adds 5, a single volumeDown subtracts 5, and volumeUp
\* followed by volumeDown stores the original value.
\* ------------------------------------------------------------------------
Entries(commands, command) ==
  Cardinality({k \in 1..Len(commands) : commands[k].command = command})

C19_AudioVolume ==
  [][PostAnswered =>
       LET device_id == dreq'.device_id
           commands == dreq'.commands
           component == commands[1].component
       IN
       (/\ \A k \in 1..Len(commands) :
             /\ commands[k].capability = "audioVolume"
             /\ commands[k].command \in {"volumeUp", "volumeDown"}
             /\ commands[k].component = component
        /\ HasAttribute(device_id, component, "audioVolume", "volume"))
       => /\ dresp'.status_code = 200
          /\ store' =
               DbSet(store, test_id,
                     [store[test_id] EXCEPT
                        ![device_id][component].audioVolume.volume.value =
                           @ + 5 * Entries(commands, "volumeUp")
                             - 5 * Entries(commands, "volumeDown")])]_vars

\* From 3 the volume went below zero to -7, and a request of volumeUp
\* followed by volumeDown was answered with success and stored -7 again.
C19_Witness ==
  /\ test_id \in DOMAIN store
  /\ store[test_id].tv.main.audioVolume.volume.value = -7
  /\ dreq.method = "post"
  /\ dreq.commands =
       <<Command("main", "audioVolume", "volumeUp", <<>>),
         Command("main", "audioVolume", "volumeDown", <<>>)>>
  /\ dresp = FakeResponse("successfully executed command", 200)

\* ------------------------------------------------------------------------
\* C20. trigger_manually appends the payload unchanged at the tail of the
\* trigger buffer and changes neither the condition list, the code registry,
\* the pipe nor the poller process; when the payload has reached the head of
\* the buffer, check_triggers returns it.
\* ------------------------------------------------------------------------
C20_ManualTriggerBypassesPoller ==
  [][/\ \A reqjson \in ManualPayloads :
          ManualTrigger(reqjson) =>
            /\ triggers' = Append(triggers, reqjson)
            /\ UNCHANGED <<conditions, codes, chan, pollerVars>>
     /\ (CheckTriggers /\ triggers # <<>> /\ Head(triggers) \in ManualPayloads)
          => resp' = Returned(Head(triggers))]_vars

\* A manual payload was returned by check_triggers while two conditions
\* were registered and their poller was running with history of its own.
C20_Witness ==
  /\ resp.status = "message"
  /\ resp.body \in ManualPayloads
  /\ Len(conditions) = 2
  /\ palive = "running"
  /\ pconds = conditions
  /\ pcodes # codes

\* ------------------------------------------------------------------------
\* C21. An add_condition request whose body has no condition record is
\* rejected without effect: the condition list, the code registry, the
\* trigger buffer and the running poller with its pipe are as before.
\* ------------------------------------------------------------------------
C21_MalformedRequestHasNoEffect ==
  [][\A code \in MalformedCodeMaps :
       AddConditionWithoutCondition(code) =>
         UNCHANGED <<conditions, codes, triggers, chan, pollerVars>>]_vars

\* ------------------------------------------------------------------------
\* C22. The server never waits for the poller. While the poller is inside a
\* routine that does not return, check_triggers and reset can be served,
\* trigger_manually and add_condition can be served whenever the bounds of
\* the model leave room for them, and an add_condition replaces the stuck
\* process by a running one that has the server's registries and a new pipe.
\* ------------------------------------------------------------------------
C22_HandlersServedWhilePollerStuck ==
  palive = "stuck" =>
    /\ ENABLED CheckTriggers
    /\ ENABLED Reset
    /\ Len(chan) + Len(triggers) < MaxPending => ENABLED ManualTriggerStep
    /\ Len(conditions) < MaxConds =>
         ENABLED (AddConditionStep /\ palive' = "running"
                    /\ pconds' = conditions' /\ pcodes' = codes'
                    /\ chan' = <<>>)

\* The poller is stuck in the routine of its only condition, a manual
\* trigger was taken while another waits in the buffer, and a second
\* condition can still be added.
C22_Witness ==
  /\ palive = "stuck"
  /\ Len(pconds) = 1
  /\ routine[pconds[1].function_name] = "hang"
  /\ conditions = pconds
  /\ resp = Returned(CHOOSE reqjson \in ManualPayloads : TRUE)
  /\ Len(triggers) = 1
  /\ ENABLED (AddConditionStep /\ palive' = "running" /\ Len(pconds') = 2)

\* ------------------------------------------------------------------------
\* C23. Every condition is evaluated in every cycle: when the poller
\* evaluates a condition and a later condition of the registry, with another
\* routine, has also changed to its notify_when value, the cycle goes on to
\* the next condition whether or not the one just evaluated fired.
\* ------------------------------------------------------------------------
C23_EveryConditionEachCycle ==
  [][(/\ PollerCompares
      /\ \E j \in (pidx + 2)..Len(pconds) :
           /\ pconds[j].function_name # CurFn
           /\ pconds[j].function_name \in DOMAIN pcodes
           /\ RunCode(pconds[j].function_name) = pconds[j].notify_when
           /\ pcodes[pconds[j].function_name].last_result
                # pconds[j].notify_when)
     => pidx' = pidx + 1]_vars

\* ------------------------------------------------------------------------
\* C24. No transition is lost across a restart: when add_condition for
\* another routine restarts a running poller, the code registry handed to
\* the new poller holds, for every routine of the server's registry that the
\* old poller had, the last_result the old poller held.
\* ------------------------------------------------------------------------
C24_RestartCarriesObservedResults ==
  [][\A cond \in CondRecs : \A code \in CodeMaps(cond) :
       (AddCondition(cond, code) /\ palive = "running") =>
         \A fn \in ((DOMAIN pcodes) \cap (DOMAIN codes)) \ {cond.function_name} :
           /\ fn \in DOMAIN pcodes'
           /\ pcodes'[fn].last_result = pcodes[fn].last_result]_vars

\* ------------------------------------------------------------------------
\* C25. Last registration wins: when the poller holds two different
\* records for one routine and a change of that routine's result makes it
\* send a message, the message is the notification of the record that was
\* registered later.
\* ------------------------------------------------------------------------
C25_LastRegistrationWins ==
  [][(/\ PollerCompares
      /\ Len(chan') > Len(chan)
      /\ Len(pconds) = 2
      /\ pconds[1] # pconds[2]
      /\ pconds[1].function_name = pconds[2].function_name)
     => /\ chan'[Len(chan')].command = pconds[2].action_description
        /\ chan'[Len(chan')].user = pconds[2].user_name]_vars

\* ------------------------------------------------------------------------
\* C26. Monitoring after a reset: when, after a reset, a condition has been
\* added with the code entry of its routine, seeded with the result that is
\* not its notify_when, and the routine returns notify_when, then, unless
\* the routine stops doing so, the registries change again or a manual
\* trigger is injected, eventually a message for the condition is in the
\* buffer, whatever else the condition list holds.
\* ------------------------------------------------------------------------
C26_CondLists(cond) ==
  {<<cond>>} \cup {<<earlier, cond>> : earlier \in CondRecs}

C26_AddedAfterReset(cond, list) ==
  /\ conditions = list
  /\ DOMAIN codes = {cond.function_name}
  /\ codes[cond.function_name].last_result # cond.notify_when
  /\ palive = "running"
  /\ pconds = conditions
  /\ pcodes = codes
  /\ pidx = 0
  /\ chan = <<>>
  /\ Len(triggers) < MaxPending
  /\ routine[cond.function_name] = cond.notify_when

C26_Disturbed(cond, list) ==
  \/ routine[cond.function_name] # cond.notify_when
  \/ conditions # list
  \/ DOMAIN codes # {cond.function_name}
  \/ \E k \in 1..Len(triggers) : triggers[k] \in ManualPayloads

C26_Retrievable(cond) ==
  \E k \in 1..Len(triggers) : triggers[k] = NotificationOf(cond)

C26_MonitoredAfterReset ==
  \A cond \in CondRecs : \A list \in C26_CondLists(cond) :
    C26_AddedAfterReset(cond, list)
      ~> (C26_Retrievable(cond) \/ C26_Disturbed(cond, list))

\* ------------------------------------------------------------------------
\* C27. One invocation, one transition: an execute_command invocation with
\* a volumeUp command that returns success leaves the volume of the device
\* at the previous value plus 5.
\* ------------------------------------------------------------------------
C27_OneTransitionPerInvocation ==
  [][(/\ dreq'.method = "execute_command"
      /\ ExecuteCommand(dreq'.device_id, dreq'.commands[1])
      /\ dreq'.commands[1].command = "volumeUp"
      /\ dresp' = FakeResponse("successfully executed command", 200))
     => store'[test_id].tv.main.audioVolume.volume.value =
          store[test_id].tv.main.audioVolume.volume.value + 5]_vars

\* ------------------------------------------------------------------------
\* C28. No lost update: when a process of the session completes a
\* successful change of one device, every other device of the session's
\* stored tree is as it was stored just before, so that a change another
\* process made to another device in the meantime is still there.
\* ------------------------------------------------------------------------
C28_NoLostUpdate ==
  [][\A p \in Procs :
       (/\ RequestWrite(p)
        /\ inflight[p].sid = test_id
        /\ test_id \in DOMAIN store
        /\ dresp' = FakeResponse("successfully executed command", 200))
       => \A device_id \in (DOMAIN store[test_id]) \ {inflight[p].device_id} :
            store'[test_id][device_id] = store[test_id][device_id]]_vars

\* ------------------------------------------------------------------------
\* C29. One poller on the channel: after every add_condition the process
\* on the server's pipe is a running one, on a new pipe, started with a
\* condition registry that ends with the added condition and a code registry
\* that holds the code entries of the request; and only the evaluation step
\* of that process ever puts a message on the pipe.
\* ------------------------------------------------------------------------
C29_OnePollerWithNewRegistry ==
  [][/\ \A cond \in CondRecs : \A code \in CodeMaps(cond) :
          AddCondition(cond, code) =>
            /\ palive' = "running"
            /\ chan' = <<>>
            /\ pidx' = 0
            /\ pconds' = Append(conditions, cond)
            /\ \A fn \in DOMAIN code :
                 fn \in DOMAIN pcodes' /\ pcodes'[fn] = code[fn]
     /\ Len(chan') > Len(chan) => PollerEval]_vars

\* A second condition was added after the first poller had fired: the
\* process on the new, empty pipe runs with both conditions and both code
\* entries, and the message of the old process is in the buffer.
C29_Witness ==
  /\ palive = "running"
  /\ chan = <<>>
  /\ pidx = 0
  /\ Len(conditions) = 2
  /\ pconds = conditions
  /\ pconds[1] # pconds[2]
  /\ DOMAIN pcodes = Fns
  /\ pcodes = codes
  /\ triggers = <<NotificationOf(pconds[1])>>

\* ------------------------------------------------------------------------
\* C30. Registry coverage: every condition record of the registry of a
\* running poller has its function_name as a key of the code registry that
\* poller was started with.
\* ------------------------------------------------------------------------
C30_RegistryCoverage ==
  palive = "running" =>
    \A i \in 1..Len(pconds) : pconds[i].function_name \in DOMAIN pcodes

====
